---------------------------- MODULE Spec2Model ----------------------------
(***************************************************************************)
(* A model of the rustar-types crate: TleData::try_from, Job::new and the  *)
(* derived Job deserializer, TelemetryRecord::new / with_id.               *)
(*                                                                         *)
(* A Rust String is modelled as the sequence of its Unicode scalar values  *)
(* (code points); its len() is the number of bytes of its UTF-8 encoding.  *)
(***************************************************************************)
EXTENDS Integers, Sequences, FiniteSets

VARIABLES
    value,      \* the String handed to TleData::try_from
    pc,         \* "start" before try_from has run, "done" after
    result,     \* what try_from returned
    jobOp,      \* the last Job operation: "none", "new" or "deserialize"
    jobArgs,    \* its arguments (Job::new) or its payload (deserialization)
    jobOut,     \* what it returned
    records     \* the TelemetryRecord constructions made so far, in order

tleVars == <<value, pc, result>>

jobVars == <<jobOp, jobArgs, jobOut>>

telemetryVars == <<records>>

vars == <<value, pc, result, jobOp, jobArgs, jobOut, records>>

(***************************************************************************)
(* Characters and strings.                                                 *)
(***************************************************************************)
LF == 10
CR == 13

\* char::len_utf8
Utf8Len(c) ==
    IF c < 128 THEN 1
    ELSE IF c < 2048 THEN 2
    ELSE IF c < 65536 THEN 3
    ELSE 4

\* str::len: the length of the string in bytes
RECURSIVE ByteLen(_)
ByteLen(s) == IF s = <<>> THEN 0 ELSE Utf8Len(Head(s)) + ByteLen(Tail(s))

\* char::is_whitespace: the code points with the White_Space property
IsWhitespace(c) ==
    \/ c \in 9..13
    \/ c = 32
    \/ c = 133
    \/ c = 160
    \/ c = 5760
    \/ c \in 8192..8202
    \/ c \in {8232, 8233, 8239, 8287, 12288}

\* str::trim: the string without its leading and trailing whitespace
Trim(s) ==
    LET keep == {i \in 1..Len(s) : ~IsWhitespace(s[i])}
    IN  IF keep = {} THEN <<>>
        ELSE LET first == CHOOSE i \in keep : \A j \in keep : i <= j
                 last  == CHOOSE i \in keep : \A j \in keep : j <= i
             IN  SubSeq(s, first, last)

\* str::split_inclusive('\n'): the pieces of s, each ending with its LF
\* (the last piece has none when s does not end with LF); none for "".
RECURSIVE SplitInclusive(_)
SplitInclusive(s) ==
    IF s = <<>> THEN <<>>
    ELSE LET nl == {i \in 1..Len(s) : s[i] = LF}
         IN  IF nl = {} THEN <<s>>
             ELSE LET i == CHOOSE k \in nl : \A j \in nl : k <= j
                  IN  <<SubSeq(s, 1, i)>> \o SplitInclusive(SubSeq(s, i + 1, Len(s)))

\* The closure of str::lines: strip a final LF, and then a final CR; a piece
\* without a final LF is returned as it is.
StripLineEnding(piece) ==
    IF piece = <<>> \/ piece[Len(piece)] # LF THEN piece
    ELSE LET l == SubSeq(piece, 1, Len(piece) - 1)
         IN  IF l = <<>> \/ l[Len(l)] # CR THEN l
             ELSE SubSeq(l, 1, Len(l) - 1)

\* A plausible slip: value.split('\n'), which also yields the empty piece
\* after a final line break.
RECURSIVE SplitOnLf(_)
SplitOnLf(s) ==
    LET nl == {i \in 1..Len(s) : s[i] = LF}
    IN  IF nl = {} THEN <<s>>
        ELSE LET i == CHOOSE k \in nl : \A j \in nl : k <= j
             IN  <<SubSeq(s, 1, i - 1)>> \o SplitOnLf(SubSeq(s, i + 1, Len(s)))

LinesBySplit(s) == SplitOnLf(s)

\* str::lines, collected
Lines(s) ==
    LET pieces == SplitInclusive(s)
    IN  [i \in 1..Len(pieces) |-> StripLineEnding(pieces[i])]

(***************************************************************************)
(* TleData and TleData::try_from.                                          *)
(***************************************************************************)
TleLineLen == 69

TleData(t0, t1, t2) == [tle0 |-> t0, tle1 |-> t1, tle2 |-> t2]

NoTle == TleData(<<>>, <<>>, <<>>)

Ok(tle) == [ok |-> TRUE, err |-> "None", tle |-> tle]

Err(e) == [ok |-> FALSE, err |-> e, tle |-> NoTle]

TleParseError == {"InsufficientLines", "InvalidTle1Length", "InvalidTle2Length"}

try_from(v) ==
    LET lines == Lines(v)
    IN  IF Len(lines) < 3 THEN Err("InsufficientLines")
        ELSE LET tle0 == Trim(lines[1])
                 tle1 == Trim(lines[2])
                 tle2 == Trim(lines[3])
             IN  IF ByteLen(tle1) # TleLineLen THEN Err("InvalidTle1Length")
                 ELSE IF ByteLen(tle2) # TleLineLen THEN Err("InvalidTle2Length")
                 ELSE Ok(TleData(tle0, tle1, tle2))

(***************************************************************************)
(* The inputs of try_from: up to 3 + MaxExtraLines lines, each a body      *)
(* between up to MaxPad whitespace characters on either side, joined by LF *)
(* or CR LF, with or without a final line break.                           *)
(***************************************************************************)
MaxPad == 1
MaxExtraLines == 1

Fill(c, n) == [i \in 1..n |-> c]

IssName == <<73,83,83,32,40,90,65,82,89,65,41>>

Iss1 == <<49,32,50,53,53,52,52,85,32,57,56,48,54,55,65,32,32,32,50,53,50,51,53,
          46,55,53,54,52,50,52,53,54,32,32,46,48,48,48,49,49,50,50,50,32,32,48,
          48,48,48,48,43,48,32,32,50,48,51,51,57,45,51,32,48,32,32,57,57,57,51>>

Iss2 == <<50,32,50,53,53,52,52,32,32,53,49,46,54,51,53,53,32,51,51,50,46,49,55,
          48,56,32,48,48,48,51,51,48,55,32,50,54,48,46,50,56,51,49,32,32,57,57,
          46,55,55,56,53,32,49,53,46,53,48,49,50,57,55,56,55,53,50,53,54,52,56>>

\* Line ends without a multi-byte character, with a 2-byte one (e acute)
\* and with a 3-byte one (the euro sign).
BodyTails == {<<>>, <<233>>, <<8364>>}

\* Byte lengths around the 69 that try_from asks for.
BodyByteLens == {68, 69, 70, 71}

Bodies ==
    {Fill(49, b - ByteLen(t)) \o t : b \in BodyByteLens, t \in BodyTails}
        \cup {<<>>, Iss1, Iss2}

Names == {<<>>, IssName}

\* Whitespace of several kinds: space, tab, no-break space, CR, form feed.
WsSample == <<32, 9, 160, 13, 12>>

Pad(k) == [i \in 1..k |-> WsSample[((i - 1) % Len(WsSample)) + 1]]

PadEnd(k) == [i \in 1..k |-> WsSample[((i + 1) % Len(WsSample)) + 1]]

LineEndings == {<<LF>>, <<CR, LF>>}

RECURSIVE Join(_, _, _)
Join(ls, ending, final) ==
    IF ls = <<>> THEN <<>>
    ELSE IF Len(ls) = 1 THEN Head(ls) \o (IF final THEN ending ELSE <<>>)
    ELSE Head(ls) \o ending \o Join(Tail(ls), ending, final)

Inputs ==
    {Join(SubSeq(<<Pad(pl) \o name \o PadEnd(pr),
                   Pad(pl) \o b1 \o PadEnd(pr),
                   Pad(pl) \o b2 \o PadEnd(pr)>>
                 \o [i \in 1..MaxExtraLines |-> IssName], 1, k),
          ending, final) :
        name \in Names, b1 \in Bodies, b2 \in Bodies,
        pl \in 0..MaxPad, pr \in 0..MaxPad,
        k \in 0..(3 + MaxExtraLines), ending \in LineEndings, final \in BOOLEAN}

(***************************************************************************)
(* The parsing specification: an input is chosen, try_from is applied.     *)
(***************************************************************************)
NoResult == Err("None")

TleInit ==
    /\ value \in Inputs
    /\ pc = "start"
    /\ result = NoResult

TryFrom ==
    /\ pc = "start"
    /\ result' = try_from(value)
    /\ pc' = "done"
    /\ UNCHANGED <<value, jobVars, telemetryVars>>

(***************************************************************************)
(* Job: Job::new and the derived Deserialize.                              *)
(*                                                                         *)
(* A DateTime<Utc> is modelled as an instant on an integer time line; an   *)
(* f64 (and an f32) as its class (finite, infinite, NaN) with the value of *)
(* a finite one or the sign of an infinite one.                            *)
(***************************************************************************)
MaxTime == 2

Times == 0..MaxTime

Finite(v) == [cls |-> "finite", v |-> v]

PosInf == [cls |-> "inf", v |-> 1]

NegInf == [cls |-> "inf", v |-> -1]

NaN == [cls |-> "nan", v |-> 0]

FloatSample == {Finite(-1), Finite(0), Finite(145800000), Finite(437500000),
                PosInf, NegInf, NaN}

None == [some |-> FALSE, bytes |-> <<>>]

Some(b) == [some |-> TRUE, bytes |-> b]

Hello == <<72, 101, 108, 108, 111>>

UplinkSample == {None, Some(<<>>), Some(Hello)}

IdSample == {0, 12345}

\* TleData has public fields and derives Deserialize: a caller builds any
\* value of it, with or without try_from.
TleSample ==
    {TleData(IssName, Iss1, Iss2), NoTle, TleData(IssName, Fill(49, 68), Iss2),
     TleData(<<>>, Iss1, Fill(49, 70))}

JobArgs ==
    [id : IdSample, satellite_id : Names, start : Times, end : Times,
     tle : TleSample, rx_frequency : FloatSample, tx_frequency : FloatSample,
     uplink : UplinkSample]

NoJob ==
    [id |-> 0, satellite_id |-> <<>>, start |-> 0, end |-> 0, tle |-> NoTle,
     rx_frequency |-> Finite(0), tx_frequency |-> Finite(0), uplink |-> None]

JobOk(j) == [ok |-> TRUE, job |-> j]

JobErr == [ok |-> FALSE, job |-> NoJob]

\* Job::new: every argument goes into the field of its name.
Job_new(a) ==
    JobOk([id |-> a.id, satellite_id |-> a.satellite_id,
           start |-> a.start, end |-> a.end, tle |-> a.tle,
           rx_frequency |-> a.rx_frequency,
           tx_frequency |-> a.tx_frequency, uplink |-> a.uplink])


(***************************************************************************)
(* The job submission payload: a JSON object, modelled as a function from  *)
(* the keys it holds to their values.  Numbers are JSON numbers (finite),  *)
(* an absent or null "uplink" deserializes to None, a missing required key *)
(* or an id that is no u64 is a deserialization error.                     *)
(***************************************************************************)
JsonNull == [null |-> TRUE, bytes |-> <<>>]

JsonBytes(b) == [null |-> FALSE, bytes |-> b]

RequiredKeys ==
    {"id", "satellite_id", "start", "end", "tle", "rx_frequency", "tx_frequency"}

JsonNumberSample == {-1, 0, 145800000}

Restrict(f, keys) == [k \in keys |-> f[k]]

FullPayloads ==
    [id : {-1} \cup IdSample, satellite_id : {IssName}, start : Times,
     end : Times, tle : TleSample, rx_frequency : JsonNumberSample,
     tx_frequency : JsonNumberSample, uplink : {JsonNull, JsonBytes(Hello)}]

Payloads ==
    FullPayloads
        \cup {Restrict(p, RequiredKeys) : p \in FullPayloads}
        \cup {Restrict(p, RequiredKeys \ {k}) :
                p \in {q \in FullPayloads :
                         /\ q.start = 0 /\ q.end = 1
                         /\ q.rx_frequency = 145800000
                         /\ q.tx_frequency = 145800000},
                k \in {"tle", "start", "rx_frequency"}}

Deserialize(p) ==
    IF ~(RequiredKeys \subseteq DOMAIN p) THEN JobErr
    ELSE IF p.id < 0 THEN JobErr
    ELSE JobOk([id |-> p.id, satellite_id |-> p.satellite_id,
                start |-> p.start, end |-> p.end, tle |-> p.tle,
                rx_frequency |-> Finite(p.rx_frequency),
                tx_frequency |-> Finite(p.tx_frequency),
                uplink |-> IF "uplink" \in DOMAIN p /\ ~p.uplink.null
                           THEN Some(p.uplink.bytes) ELSE None])

JobInit ==
    /\ jobOp = "none"
    /\ jobArgs = NoJob
    /\ jobOut = JobErr

\* One run constructs one Job: by Job::new ...
JobNew ==
    /\ jobOp = "none"
    /\ \E a \in JobArgs :
           /\ jobOp' = "new"
           /\ jobArgs' = a
           /\ jobOut' = Job_new(a)
    /\ UNCHANGED <<tleVars, telemetryVars>>

\* ... or from a submission payload.
JobDeserialize ==
    /\ jobOp = "none"
    /\ \E p \in Payloads :
           /\ jobOp' = "deserialize"
           /\ jobArgs' = p
           /\ jobOut' = Deserialize(p)
    /\ UNCHANGED <<tleVars, telemetryVars>>

(***************************************************************************)
(* TelemetryRecord: new and with_id.                                       *)
(***************************************************************************)
MaxRecords == 3

\* The measurements of a record: timestamp, temperature, voltage, current,
\* battery_level.  In range, out of any physical range, and not numbers.
Measurements ==
    {[timestamp |-> 1758283200, temperature |-> Finite(21), voltage |-> Finite(5),
      current |-> Finite(1), battery_level |-> 80],
     [timestamp |-> -1, temperature |-> Finite(-1000), voltage |-> Finite(-9),
      current |-> Finite(0), battery_level |-> -250],
     [timestamp |-> 0, temperature |-> NaN, voltage |-> PosInf,
      current |-> NegInf, battery_level |-> 101]}

Record(id, m) ==
    [id |-> id, timestamp |-> m.timestamp, temperature |-> m.temperature,
     voltage |-> m.voltage, current |-> m.current,
     battery_level |-> m.battery_level]

\* What the random source hands Uuid::new_v4: 16 bytes.  Two of the draws
\* differ only in bits that a version 4 UUID overwrites.
RandomDraws ==
    {Fill(0, 16), [Fill(0, 16) EXCEPT ![7] = 176, ![9] = 64], Fill(255, 16),
     [Fill(90, 16) EXCEPT ![16] = 7]}

\* Uuid::new_v4: the version nibble is set to 4, the variant bits to 10.
NewV4(draw) ==
    [draw EXCEPT ![7] = (draw[7] % 16) + 64, ![9] = (draw[9] % 64) + 128]

HexDigit(n) == IF n < 10 THEN 48 + n ELSE 87 + n

HexByte(b) == <<HexDigit(b \div 16), HexDigit(b % 16)>>

RECURSIVE HexBytes(_)
HexBytes(bs) == IF bs = <<>> THEN <<>> ELSE HexByte(Head(bs)) \o HexBytes(Tail(bs))

\* Uuid::to_string: lower-case hexadecimal, hyphenated 8-4-4-4-12.
UuidToString(u) ==
    HexBytes(SubSeq(u, 1, 4)) \o <<45>> \o HexBytes(SubSeq(u, 5, 6)) \o <<45>>
        \o HexBytes(SubSeq(u, 7, 8)) \o <<45>> \o HexBytes(SubSeq(u, 9, 10))
        \o <<45>> \o HexBytes(SubSeq(u, 11, 16))

\* The ids a caller supplies: empty, short, and one that new() can mint.
SuppliedIds == {<<>>, <<97>>, UuidToString(NewV4(Fill(0, 16)))}

\* A slip: with_id minting an id of its own, as new does.
with_id_minting(id, m) == Record(UuidToString(NewV4(Fill(0, 16))), m)

\* TelemetryRecord::with_id
with_id(id, m) == Record(id, m)

\* TelemetryRecord::new, on the bytes the random source returns
new(draw, m) == Record(UuidToString(NewV4(draw)), m)

TelemetryInit == records = <<>>

New ==
    /\ Len(records) < MaxRecords
    /\ \E draw \in RandomDraws, m \in Measurements :
           records' = Append(records,
               [how |-> "new", draw |-> draw, id |-> <<>>, m |-> m,
                rec |-> new(draw, m)])
    /\ UNCHANGED <<tleVars, jobVars>>

WithId ==
    /\ Len(records) < MaxRecords
    /\ \E id \in SuppliedIds, m \in Measurements :
           records' = Append(records,
               [how |-> "with_id", draw |-> <<>>, id |-> id, m |-> m,
                rec |-> with_id(id, m)])
    /\ UNCHANGED <<tleVars, jobVars>>

(***************************************************************************)
(* The specifications.  Each part of the crate is independent of the       *)
(* others: a specification runs one part and leaves the others' state at   *)
(* its initial value.                                                      *)
(***************************************************************************)
TleIdle == value = <<>> /\ pc = "idle" /\ result = NoResult

TleNext == TryFrom

InitTle == TleInit /\ JobInit /\ TelemetryInit

SpecTle == InitTle /\ [][TleNext]_vars

JobNext == JobNew \/ JobDeserialize

InitJob == TleIdle /\ JobInit /\ TelemetryInit

SpecJob == InitJob /\ [][JobNext]_vars

TelemetryNext == New \/ WithId

InitTelemetry == TleIdle /\ JobInit /\ TelemetryInit

SpecTelemetry == InitTelemetry /\ [][TelemetryNext]_vars


(***************************************************************************)
(* Properties.                                                             *)
(***************************************************************************)
\* The number of LF characters of s.
CountLf(s) == Cardinality({i \in 1..Len(s) : s[i] = LF})

\* The number of lines s splits into on line breaks: one per LF, and one
\* more for the text after the last LF when there is any.
LineBreakSegments(s) ==
    CountLf(s) + (IF s # <<>> /\ s[Len(s)] # LF THEN 1 ELSE 0)

\* The length of a string in characters.
CharLen(s) == Len(s)

TrimmedLine(n) == Trim(Lines(value)[n])

\* C1: an input that splits into fewer than 3 lines on line breaks (the
\* empty string and an input whose third line would be the nothing after a
\* final line break included) fails with InsufficientLines and yields no
\* TleData.
C1_InsufficientLines ==
    (pc = "done" /\ LineBreakSegments(value) < 3)
        => (~result.ok /\ result.err = "InsufficientLines" /\ result.tle = NoTle)

\* Two lines and a final line break have been parsed and refused.
C1_Witness ==
    /\ pc = "done"
    /\ CountLf(value) = 2
    /\ value[Len(value)] = LF
    /\ result.err = "InsufficientLines"

\* C2, as stated: with at least 3 lines, a trimmed line 1 that is not
\* exactly 69 characters long fails with InvalidTle1Length, and a trimmed
\* line 1 of 69 characters with a trimmed line 2 that is not exactly 69
\* characters long fails with InvalidTle2Length.
C2_LengthInCharacters ==
    (pc = "done" /\ Len(Lines(value)) >= 3)
        => /\ CharLen(TrimmedLine(2)) # TleLineLen
                => result.err = "InvalidTle1Length"
           /\ (CharLen(TrimmedLine(2)) = TleLineLen
                 /\ CharLen(TrimmedLine(3)) # TleLineLen)
                => result.err = "InvalidTle2Length"

\* C3, as stated: the checks run in the order InsufficientLines,
\* InvalidTle1Length, InvalidTle2Length and exactly the first one violated
\* is reported, the length of a line being its number of characters after
\* trimming.  InsufficientLines is reported exactly when there are fewer
\* than 3 lines; InvalidTle1Length exactly when there are 3 lines and line
\* 1 is not 69 characters long, whatever line 2 is; InvalidTle2Length
\* exactly when there are 3 lines, line 1 is 69 characters long and line 2
\* is not.  The outcome is a single one: a TleData and no error, or one
\* error and no TleData.
C3_FirstViolatedCheck ==
    pc = "done"
        => /\ result.ok <=> result.err = "None"
           /\ ~result.ok => (result.err \in TleParseError /\ result.tle = NoTle)
           /\ result.err = "InsufficientLines" <=> LineBreakSegments(value) < 3
           /\ result.err = "InvalidTle1Length"
                <=> (/\ LineBreakSegments(value) >= 3
                     /\ CharLen(TrimmedLine(2)) # TleLineLen)
           /\ result.err = "InvalidTle2Length"
                <=> (/\ LineBreakSegments(value) >= 3
                     /\ CharLen(TrimmedLine(2)) = TleLineLen
                     /\ CharLen(TrimmedLine(3)) # TleLineLen)

\* C4, as stated: with at least 3 lines whose trimmed lines 1 and 2 are
\* each exactly 69 characters long, try_from succeeds and returns exactly
\* the three trimmed lines, whatever the name line and the lines after the
\* third.
C4_SuccessOn69Characters ==
    (/\ pc = "done"
     /\ Len(Lines(value)) >= 3
     /\ CharLen(TrimmedLine(2)) = TleLineLen
     /\ CharLen(TrimmedLine(3)) = TleLineLen)
        => /\ result.ok
           /\ result.tle = TleData(TrimmedLine(1), TrimmedLine(2), TrimmedLine(3))

\* C5, as stated: constructing a Job with start >= end is rejected, and no
\* Job with start >= end is ever produced by Job construction.
C5_NoJobWithEmptyWindow ==
    jobOp = "new"
        => /\ jobArgs.start >= jobArgs.end => ~jobOut.ok
           /\ jobOut.ok => jobOut.job.start < jobOut.job.end

IsFinitePositive(f) == f.cls = "finite" /\ f.v > 0

\* C6, as stated: constructing a Job with a frequency that is zero,
\* negative, infinite or NaN fails and yields no Job: a Job is constructed
\* only with finite and strictly positive frequencies.
C6_FrequenciesFinitePositive ==
    jobOp = "new"
        => /\ (\/ ~IsFinitePositive(jobArgs.rx_frequency)
               \/ ~IsFinitePositive(jobArgs.tx_frequency)) => ~jobOut.ok
           /\ jobOut.ok
                => /\ IsFinitePositive(jobOut.job.rx_frequency)
                   /\ IsFinitePositive(jobOut.job.tx_frequency)

\* C7, as stated: the TleData of every Job obtained from Job::new or from
\* a submission payload passes the checks of try_from: tle1 and tle2 are
\* each exactly 69 long.
C7_JobTleIsValid ==
    jobOut.ok
        => /\ ByteLen(jobOut.job.tle.tle1) = TleLineLen
           /\ ByteLen(jobOut.job.tle.tle2) = TleLineLen

\* The NORAD checksum of a line: the digits count as their value, a minus
\* sign as 1, every other character as 0, summed modulo 10.
ChecksumWeight(c) == IF c \in 48..57 THEN c - 48 ELSE IF c = 45 THEN 1 ELSE 0

RECURSIVE WeightSum(_)
WeightSum(s) == IF s = <<>> THEN 0 ELSE ChecksumWeight(Head(s)) + WeightSum(Tail(s))

ChecksumValid(line) ==
    /\ Len(line) = TleLineLen
    /\ line[TleLineLen] = 48 + (WeightSum(SubSeq(line, 1, TleLineLen - 1)) % 10)

\* C9, as stated: in every TleData that try_from accepts, the 69th
\* character of tle1 and of tle2 is the checksum digit of the 68 before it.
C9_AcceptedChecksumsValid ==
    (pc = "done" /\ result.ok)
        => (ChecksumValid(result.tle.tle1) /\ ChecksumValid(result.tle.tle2))

RecordIndices == 1..Len(records)

MeasurementsKept(e) ==
    /\ e.rec.timestamp = e.m.timestamp
    /\ e.rec.temperature = e.m.temperature
    /\ e.rec.voltage = e.m.voltage
    /\ e.rec.current = e.m.current
    /\ e.rec.battery_level = e.m.battery_level

\* Two draws of the random source that agree on every bit a version 4 UUID
\* takes from it: all but the high nibble of byte 6 and the two high bits
\* of byte 8 (counted from 0).
SameRandomBits(d1, d2) ==
    /\ \A i \in (1..16) \ {7, 9} : d1[i] = d2[i]
    /\ d1[7] % 16 = d2[7] % 16
    /\ d1[9] % 64 = d2[9] % 64

WithIdKeepsIdAndMeasurements ==
    /\ \A i \in RecordIndices :
           /\ MeasurementsKept(records[i])
           /\ records[i].how = "with_id" => records[i].rec.id = records[i].id
    /\ \A i, j \in RecordIndices :
           (/\ records[i].how = "with_id" /\ records[j].how = "with_id"
            /\ records[i].id = records[j].id)
               => records[i].rec.id = records[j].rec.id

\* C10, as stated: with_id keeps the supplied id and the measurements, and
\* two constructions with new produce records with distinct ids.
C10_NewIdsDistinct ==
    /\ WithIdKeepsIdAndMeasurements
    /\ \A i, j \in RecordIndices :
           (i # j /\ records[i].how = "new" /\ records[j].how = "new")
               => records[i].rec.id # records[j].rec.id

\* C10, amended: with_id keeps the supplied id and the measurements; new
\* keeps the measurements and mints the 36-character string of a version 4
\* UUID from the random source, so that two constructions with new have
\* the same id exactly when the random source returned the same 122 bits.
C10_IdsSuppliedOrRandom ==
    /\ WithIdKeepsIdAndMeasurements
    /\ \A i \in RecordIndices :
           records[i].how = "new"
               => /\ Len(records[i].rec.id) = 36
                  /\ records[i].rec.id[15] = 52
                  /\ {k \in 1..36 : records[i].rec.id[k] = 45} = {9, 14, 19, 24}
    /\ \A i, j \in RecordIndices :
           (records[i].how = "new" /\ records[j].how = "new")
               => (records[i].rec.id = records[j].rec.id
                     <=> SameRandomBits(records[i].draw, records[j].draw))

\* Two records made with the same supplied id and different measurements,
\* and one made by new.
C10_Witness ==
    /\ Len(records) = 3
    /\ records[1].how = "with_id"
    /\ records[2].how = "with_id"
    /\ records[1].id = records[2].id
    /\ records[1].rec.id = records[2].rec.id
    /\ records[1].rec # records[2].rec
    /\ records[3].how = "new"
    /\ records[3].rec.battery_level = -250

=============================================================================
